---- MODULE Spec2Model ----
(***************************************************************************)
(* Model of douyin_mcp_server/server.py: the link resolver                *)
(* (DouyinProcessor.parse_share_url), the chunked downloader               *)
(* (DouyinProcessor.download_video) and the four host-facing entry points  *)
(* (three tools and one resource).                                         *)
(*                                                                         *)
(* Strings are sequences of one-character strings; the two URL schemes    *)
(* "http://" and "https://" and a few fixed literals ("douyin_", ".mp4",   *)
(* "playwm") are single elements.  File contents are sequences of bytes;  *)
(* byte 0 is the zero byte a gap in a file reads as.  The messages of the  *)
(* exceptions and envelopes, Chinese in the source, are given in English. *)
(*                                                                         *)
(* The host runs the entry points on one event loop: an invocation keeps  *)
(* the loop until it returns, raises, or reaches an await (lines 100, 117 *)
(* and 119); only there can another invocation run.                       *)
(***************************************************************************)
EXTENDS Integers, Sequences, FiniteSets, TLC

\* ------------------------------------------------------------------ bounds
MaxText   == 2   \* longest share text, in elements
MaxDesc   == 1   \* longest description field, in characters
MaxChunks == 2   \* most chunks one response body is delivered in
MaxChunk  == 2   \* most bytes in one chunk (chunk_size, scaled down)

Tasks == {1, 2}
NoTask == 0

\* ------------------------------------------------------------- sequences
SeqsUpTo(S, n) == UNION {[1..k -> S] : k \in 0..n}

RECURSIVE Flatten(_)
Flatten(ss) == IF ss = <<>> THEN <<>> ELSE Head(ss) \o Flatten(Tail(ss))

Range(s) == {s[i] : i \in 1..Len(s)}

\* ------------------------------------------------ parse_share_url: step 1
Schemes == {"http://", "https://"}

\* Characters the URL pattern's character class accepts: letters, digits,
\* the range $-_ (0x24..0x5F), and ! * ( ) ,  Every character of a scheme
\* is in the class, so a scheme inside a match continues the match.
UrlClass == {"a", "7", "$", "%", "&", "+", "-", ".", "/", ":", "?", "=", "@",
             "_", "!", "*", "(", ")", ",", "<", ">", "\\"} \cup Schemes

\* Characters a share text is drawn from here: a scheme, one class character
\* and one character outside the class (a space).
TextChars == {"https://", "a", " "}

\* End of the longest run of class characters that starts at position i.
RECURSIVE RunEnd(_, _)
RunEnd(text, i) ==
    IF i <= Len(text) /\ text[i] \in UrlClass THEN RunEnd(text, i + 1) ELSE i - 1

\* The mutant: the pattern with * for +, which accepts a bare scheme.
RECURSIVE FindAllStar(_, _)
FindAllStar(text, i) ==
    IF i > Len(text) THEN <<>>
    ELSE IF text[i] \in Schemes
         THEN <<SubSeq(text, i, RunEnd(text, i + 1))>>
                  \o FindAllStar(text, RunEnd(text, i + 1) + 1)
         ELSE FindAllStar(text, i + 1)

\* re.findall(r'https?://(?:...)+', text) scanning from position i:
\* leftmost, greedy, non-overlapping matches.
RECURSIVE FindAll(_, _)
FindAll(text, i) ==
    IF i > Len(text) THEN <<>>
    ELSE IF text[i] \in Schemes /\ RunEnd(text, i + 1) > i
         THEN <<SubSeq(text, i, RunEnd(text, i + 1))>>
                  \o FindAll(text, RunEnd(text, i + 1) + 1)
         ELSE FindAll(text, i + 1)

\* ------------------------------------------------ parse_share_url: step 2
\* s.split(c)[0]
RECURSIVE BeforeFirst(_, _)
BeforeFirst(s, c) ==
    IF s = <<>> \/ Head(s) = c THEN <<>> ELSE <<Head(s)>> \o BeforeFirst(Tail(s), c)

\* s.split(c)[-1]
RECURSIVE AfterLast(_, _)
AfterLast(s, c) ==
    IF \E i \in 1..Len(s) : s[i] = c
    THEN AfterLast(Tail(s), c)
    ELSE s

RECURSIVE LStrip(_, _)
LStrip(s, cs) == IF s # <<>> /\ Head(s) \in cs THEN LStrip(Tail(s), cs) ELSE s

RECURSIVE RStrip(_, _)
RStrip(s, cs) ==
    IF s # <<>> /\ s[Len(s)] \in cs THEN RStrip(SubSeq(s, 1, Len(s) - 1), cs) ELSE s

\* s.strip(chars)
Strip(s, cs) == RStrip(LStrip(s, cs), cs)

\* share_response.url.split("?")[0].strip("/").split("/")[-1]
VideoIdOf(url) == AfterLast(Strip(BeforeFirst(url, "?"), {"/"}), "/")

\* The final URLs a share-link GET may report after redirects.
\* Character by character; "s" stands for the letters of the scheme.
FinalUrls == { <<"s", ":", "/", "/", "a", "/", "7">>,
               <<"s", ":", "/", "/", "a", "/", "7", "/", "?", "a", "/", "b">>,
               <<"s", ":", "/", "/", "a", "/", ":">> }

Statuses == {200, 404}

\* The mutant: the status never looked at.
RaisesNever(status) == FALSE

\* Response.raise_for_status(): raises for a 4xx or 5xx status.
RaisesForStatus(status) == status >= 400

\* ------------------------------------------------ parse_share_url: step 6
Whitespace == {" "}

Illegal == {"\\", "/", ":", "*", "?", "\"", "<", ">", "|"}

\* Characters a description is drawn from here.
DescChars == {"a", " ", "\\", "/", ":", "|"}

\* The mutant: the character class without the colon.
SanitizeNoColon(s) == [i \in 1..Len(s) |-> IF s[i] \in Illegal \ {":"} THEN "_" ELSE s[i]]

\* re.sub(r'[\\/:*?"<>|]', '_', desc)
Sanitize(s) == [i \in 1..Len(s) |-> IF s[i] \in Illegal THEN "_" ELSE s[i]]

\* url.replace("playwm", "play")
Unwatermark(url) == [i \in 1..Len(url) |-> IF url[i] = "playwm" THEN "play" ELSE url[i]]

\* data.get("desc", "").strip() or f"douyin_{video_id}"
DescOrDefault(desc, vid) ==
    IF Strip(desc, Whitespace) # <<>> THEN Strip(desc, Whitespace) ELSE <<"douyin_">> \o vid

\* The title of the returned dict (lines 84-87).
TitleOf(desc, vid) == Sanitize(DescOrDefault(desc, vid))

\* ------------------------------------------- parse_share_url: steps 4 and 5
video_id_page_key == "video_(id)/page"
note_id_page_key == "note_(id)/page"
PageKeys == {video_id_page_key, note_id_page_key}

\* What the value under a page key holds: no "videoInfoRes" member, an empty
\* item_list, or an item_list of one record.
ResKinds == {"nores", "empty", "one"}

\* The "desc" member of a record: absent, null, or a string.
Descs == SeqsUpTo(DescChars, MaxDesc)
NoDesc == [has |-> "absent", val |-> <<>>]
DescFields == {NoDesc, [has |-> "null", val |-> <<>>]}
                  \cup {[has |-> "str", val |-> d] : d \in Descs}

NoRes == [k \in PageKeys |-> "nores"]

\* The text after the marker, as json.loads sees it: not JSON ("invalid"), a
\* JSON value that is no object ("scalar"), or an object whose "loaderData"
\* member is absent, null, a list, or an object with some of the page keys.
Json(kind, ld, keys, res, desc) ==
    [kind |-> kind, ld |-> ld, keys |-> keys, res |-> res, desc |-> desc]

\* The key an ordered lookup that tries the video key first would use.
FirstKeyOf(keys) ==
    IF video_id_page_key \in keys THEN video_id_page_key
    ELSE IF note_id_page_key \in keys THEN note_id_page_key
    ELSE "none"

Jsons ==
    {Json(k, "absent", {}, NoRes, NoDesc) : k \in {"invalid", "scalar"}}
    \cup {Json("object", ld, {}, NoRes, NoDesc) : ld \in {"absent", "null", "list"}}
    \cup {j \in {Json("object", "object", keys, res, desc) :
                    keys \in SUBSET PageKeys, res \in [PageKeys -> ResKinds],
                    desc \in DescFields} :
             /\ \A k \in PageKeys \ j.keys : j.res[k] = "nores"
             /\ (FirstKeyOf(j.keys) = "none" \/ j.res[FirstKeyOf(j.keys)] # "one")
                    => j.desc = NoDesc}

\* data["video"]["play_addr"]["url_list"][0] of the record under each key.
PlayAddr(key) ==
    IF key = video_id_page_key THEN <<"v", "/", "playwm", "/">> ELSE <<"n", "/", "playwm", "/">>

\* The detail page: whether the marker pattern matches with a non-empty
\* group, and the text of the group.
NoJson == Json("invalid", "absent", {}, NoRes, NoDesc)
Pages == {[marker |-> m, json |-> NoJson] : m \in {"none", "empty"}}
             \cup {[marker |-> "found", json |-> j] : j \in Jsons}

\* ------------------------------------------------------------------ errors
ErrNoLink       == "ValueError: no valid share link found"
ErrTransport    == "RequestException"
ErrStatus       == "HTTPError"
ErrParsePage    == "ValueError: failed to parse video info from HTML"
ErrJson         == "JSONDecodeError"
ErrType         == "TypeError"
ErrKey          == "KeyError"
ErrIndex        == "IndexError"
ErrAttribute    == "AttributeError"
ErrUnrecognized == "Exception: cannot parse video or note info from JSON"
ErrOS           == "OSError"
NoErr           == "none"

ResolutionErrors == {ErrNoLink, ErrTransport, ErrStatus, ErrParsePage, ErrJson,
                     ErrType, ErrKey, ErrIndex, ErrAttribute, ErrUnrecognized}

NoInfo == [url |-> <<>>, title |-> <<>>, video_id |-> <<>>]

Ok(info)   == [err |-> NoErr, info |-> info]
Raise(err) == [err |-> err, info |-> NoInfo]

\* Lines 73-78: the if / elif / else over json_data["loaderData"].
SelectKey(keys) ==
    IF video_id_page_key \in keys THEN video_id_page_key
    ELSE IF note_id_page_key \in keys THEN note_id_page_key
    ELSE "none"

\* Lines 59-93 of parse_share_url: from the detail page's text to the
\* returned dict, or to the exception the first failing line raises.
ParsePage(page, vid) ==
    LET j == page.json
        key == SelectKey(j.keys)
    IN  IF page.marker # "found" THEN Raise(ErrParsePage)
        ELSE IF j.kind = "invalid" THEN Raise(ErrJson)
        ELSE IF j.kind = "scalar" THEN Raise(ErrType)
        ELSE IF j.ld = "absent" THEN Raise(ErrKey)
        ELSE IF j.ld = "null" THEN Raise(ErrType)
        ELSE IF j.ld = "list" \/ key = "none" THEN Raise(ErrUnrecognized)
        ELSE IF j.res[key] = "nores" THEN Raise(ErrKey)
        ELSE IF j.res[key] = "empty" THEN Raise(ErrIndex)
        ELSE IF j.desc.has = "null" THEN Raise(ErrAttribute)
        ELSE Ok([url |-> Unwatermark(PlayAddr(key)),
                 title |-> TitleOf(j.desc.val, vid),
                 video_id |-> vid])

\* ------------------------------------------------------------ entry points
OpLink     == "get_douyin_download_link"
OpInfo     == "parse_douyin_video_info"
OpDownload == "download_douyin_video"
OpResource == "get_video_info"
OpNone     == "none"
Ops == {OpLink, OpInfo, OpDownload, OpResource}

NoOutcome == [kind |-> "none", status |-> "", error |-> <<>>, value |-> <<>>]

\* What each entry point hands to the host on success.
Success(o, info, path) ==
    IF o = OpResource
    THEN [kind |-> "json", status |-> "", error |-> <<>>,
          value |-> <<info.url, info.title, info.video_id>>]
    ELSE IF o = OpDownload
    THEN [kind |-> "envelope", status |-> "success", error |-> <<>>, value |-> <<path>>]
    ELSE [kind |-> "envelope", status |-> "success", error |-> <<>>,
          value |-> <<info.video_id, info.title, info.url>>]

\* The mutant: the download tool wrapped in the handler the other tools have.
OnErrorCatchAll(o, err) ==
    IF o = OpResource
    THEN [kind |-> "text", status |-> "", error |-> <<"failed: ", err>>, value |-> <<>>]
    ELSE [kind |-> "envelope", status |-> "error", error |-> <<err>>, value |-> <<>>]

\* What each entry point does with an exception: the except clauses of
\* lines 147-151, 176-180 and 220-221, and none in download_douyin_video.
OnError(o, err) ==
    IF o = OpLink
    THEN [kind |-> "envelope", status |-> "error",
          error |-> <<"get download link failed: ", err>>, value |-> <<>>]
    ELSE IF o = OpInfo
    THEN [kind |-> "envelope", status |-> "error", error |-> <<err>>, value |-> <<>>]
    ELSE IF o = OpResource
    THEN [kind |-> "text", status |-> "", error |-> <<"get video info failed: ", err>>,
          value |-> <<>>]
    ELSE [kind |-> "raised", status |-> "", error |-> <<err>>, value |-> <<>>]

\* -------------------------------------------------------------- filesystem
cache_dir == <<"..", "/", "t", "m", "p">>

\* The mutant: the directory left out of the path.
DestPathBare(dir, title) == title \o <<".mp4">>

\* f"{self.cache_dir}/{filename}" with filename = f"{video_info['title']}.mp4"
DestPath(dir, title) == dir \o <<"/">> \o title \o <<".mp4">>

\* Files on disk before any invocation: one in the cache directory under the
\* name a title of "a" maps to, one in the cache directory under another
\* name, and one outside the cache directory.
OldBytes == <<901, 902, 903>>
KeepPath == cache_dir \o <<"/", "k", "e", "e", "p">>
HomePath == <<"h", "o", "m", "e">>
Fs0 == (DestPath(cache_dir, <<"a">>) :> OldBytes) @@ (KeepPath :> <<904>>)
           @@ (HomePath :> <<905>>)

\* The mutant: the file opened without truncation (mode "ab" for "wb").
OpenKeep(disk, path) ==
    IF path \in DOMAIN disk THEN disk ELSE (path :> <<>>) @@ disk

\* open(filepath, 'wb'): the file is created, or truncated to length 0.
OpenWb(disk, path) == (path :> <<>>) @@ disk

\* The mutant: every write lands at the end of the file (append mode).
WriteAppend(content, pos, chunk) == content \o chunk

\* f.write(chunk) on a handle at offset pos: bytes land at pos+1..pos+Len;
\* a gap between the end of the file and pos reads as zero bytes.  The write
\* is taken to reach the file at once; the file object's buffer can only
\* delay it, to the close at the latest.
WriteAt(content, pos, chunk) ==
    LET n == IF Len(content) > pos + Len(chunk) THEN Len(content) ELSE pos + Len(chunk)
    IN  [i \in 1..n |->
            IF i > pos /\ i <= pos + Len(chunk) THEN chunk[i - pos]
            ELSE IF i <= Len(content) THEN content[i]
            ELSE 0]

\* ------------------------------------------------------------- the stream
\* Byte number i (from 1) of the body served to invocation t.
ByteOf(t, i) == 100 * t + i

RECURSIVE ChunksFrom(_, _, _)
ChunksFrom(t, lens, off) ==
    IF lens = <<>> THEN <<>>
    ELSE <<[i \in 1..Head(lens) |-> ByteOf(t, off + i)]>>
             \o ChunksFrom(t, Tail(lens), off + Head(lens))

\* The bodies iter_content may deliver: up to MaxChunks chunks of 0..MaxChunk
\* bytes each.  The second of two concurrent downloads is served full chunks.
Bodies(t) ==
    {ChunksFrom(t, lens, 0) :
        lens \in SeqsUpTo(IF t = 1 THEN 0..MaxChunk ELSE {MaxChunk}, MaxChunks)}

\* The values of the content-length header for a body of n bytes: absent
\* (read as 0), the body's length, or another length (a compressed body).
ContentLengths(n) == {0, n, n + 1}

\* The mutant: progress reported whatever the total.
ShouldReportAlways(total) == TRUE

\* Line 115: progress is reported only under "if total_size > 0".
ShouldReport(total) == total > 0

\* The mutant: the count advanced by one per chunk.
AdvanceByOne(count, chunk) == count + 1

\* Line 114: downloaded += len(chunk)
Advance(count, chunk) == count + Len(chunk)

\* ------------------------------------------------------------------- state
VARIABLES
    op,             \* the entry point each invocation runs
    share_link,     \* DouyinProcessor.share_link
    pc,             \* where each invocation stands
    running,        \* the invocation holding the event loop, or NoTask
    requests,       \* the outbound GETs each invocation has issued, in order
    share_response, \* parse_share_url's local: final URL and status of the first GET
    page,           \* parse_share_url's local: the detail response (status, text)
    video_info,     \* the dict parse_share_url returns
    outcome,        \* what the host gets back from the invocation
    fs,             \* the files on disk: path -> bytes
    fh,             \* download_video's file object: not made, open or closed; its offset
    body,           \* the chunks iter_content delivers
    total_size,     \* download_video's local
    consumed,       \* how many chunks the for loop has taken
    downloaded,     \* download_video's local
    progress,       \* the calls ctx.report_progress has received, in order
    alone           \* whether the file was opened with every other invocation finished with it

vars == <<op, share_link, pc, running, requests, share_response, page, video_info,
          outcome, fs, fh, body, total_size, consumed, downloaded, progress, alone>>

resolveLocals == <<share_response, page>>
downloadLocals == <<fh, body, total_size, consumed, downloaded, progress, alone>>

NoResponse == [url |-> <<>>, status |-> 0]
NoPage == [status |-> 0, marker |-> "none", json |-> NoJson]
NoFile == [state |-> "none", pos |-> 0]

\* The share texts of the three tools.
Texts == SeqsUpTo(TextChars, MaxText)

\* Line 215: share_url = f"https://www.iesdouyin.com/share/video/{video_id}"
ResourceUrl(vid) == <<"https://", "a", "/">> \o vid

\* The video_id path segments a resource lookup is made with.
ResourceIds == {<<>>, <<"7">>}

\* The texts an entry point may be called with.
SharesOf(o) == IF o = OpResource THEN {ResourceUrl(v) : v \in ResourceIds} ELSE Texts

\* A download suspended at "await ctx.info" of line 100, its resolution done.
ResolvedInfo == [url |-> Unwatermark(PlayAddr(video_id_page_key)),
                 title |-> <<"a">>, video_id |-> <<"7">>]

InitRest ==
    /\ running = NoTask
    /\ share_response = [t \in Tasks |-> NoResponse]
    /\ page = [t \in Tasks |-> NoPage]
    /\ outcome = [t \in Tasks |-> NoOutcome]
    /\ fs = Fs0
    /\ fh = [t \in Tasks |-> NoFile]
    /\ body = [t \in Tasks |-> <<>>]
    /\ total_size = [t \in Tasks |-> 0]
    /\ consumed = [t \in Tasks |-> 0]
    /\ downloaded = [t \in Tasks |-> 0]
    /\ progress = [t \in Tasks |-> <<>>]
    /\ alone = [t \in Tasks |-> FALSE]

\* One invocation (task 1) of any entry point, at its call; task 2 is unused.
Init ==
    /\ \E o \in Ops : \E s \in SharesOf(o) :
           /\ op = [t \in Tasks |-> IF t = 1 THEN o ELSE OpNone]
           /\ share_link = [t \in Tasks |-> IF t = 1 THEN s ELSE <<>>]
    /\ pc = [t \in Tasks |-> IF t = 1 THEN "start" ELSE "done"]
    /\ requests = [t \in Tasks |-> <<>>]
    /\ video_info = [t \in Tasks |-> NoInfo]
    /\ InitRest

\* Two downloads that resolved to the same title, both past line 100.
InitPair ==
    /\ op = [t \in Tasks |-> OpDownload]
    /\ share_link = [t \in Tasks |-> <<"https://", "a">>]
    /\ pc = [t \in Tasks |-> "dl_get"]
    /\ requests = [t \in Tasks |-> <<"share", "detail">>]
    /\ video_info = [t \in Tasks |-> ResolvedInfo]
    /\ InitRest

\* ------------------------------------------------------------------ actions
Path(t) == DestPath(cache_dir, video_info[t].title)

\* An exception leaves the entry point: the invocation ends with whatever the
\* entry point makes of it.
Fail(t, err) ==
    /\ pc' = [pc EXCEPT ![t] = "done"]
    /\ outcome' = [outcome EXCEPT ![t] = OnError(op[t], err)]
    /\ running' = NoTask

\* Lines 45-50: the URL scan.
FindUrl(t) ==
    /\ pc[t] = "start"
    /\ running \in {NoTask, t}
    /\ IF FindAll(share_link[t], 1) = <<>>
       THEN Fail(t, ErrNoLink)
       ELSE /\ pc' = [pc EXCEPT ![t] = "get_share"]
            /\ running' = t
            /\ UNCHANGED outcome
    /\ UNCHANGED <<op, share_link, requests, video_info, fs, resolveLocals, downloadLocals>>

\* Lines 51-53: the GET of the share URL.  The status of the response is not
\* looked at; only a transport failure raises.
GetShare(t) ==
    /\ pc[t] = "get_share"
    /\ running \in {NoTask, t}
    /\ requests' = [requests EXCEPT ![t] = Append(@, "share")]
    /\ \/ /\ Fail(t, ErrTransport)
          /\ UNCHANGED share_response
       \/ /\ \E u \in FinalUrls, st \in Statuses :
                 share_response' = [share_response EXCEPT ![t] = [url |-> u, status |-> st]]
          /\ pc' = [pc EXCEPT ![t] = "get_detail"]
          /\ running' = t
          /\ UNCHANGED outcome
    /\ UNCHANGED <<op, share_link, page, video_info, fs, downloadLocals>>

\* Lines 56-93: the GET of the detail page, raise_for_status, and the parse.
GetDetail(t) ==
    /\ pc[t] = "get_detail"
    /\ running \in {NoTask, t}
    /\ requests' = [requests EXCEPT ![t] = Append(@, "detail")]
    /\ \/ /\ Fail(t, ErrTransport)
          /\ UNCHANGED <<page, video_info>>
       \/ \E st \in Statuses :
              IF RaisesForStatus(st)
              THEN /\ page' = [page EXCEPT ![t].status = st]
                   /\ Fail(t, ErrStatus)
                   /\ UNCHANGED video_info
              ELSE \E pg \in Pages :
                       LET r == ParsePage(pg, VideoIdOf(share_response[t].url))
                       IN  /\ page' = [page EXCEPT ![t] =
                                           [status |-> st, marker |-> pg.marker,
                                            json |-> pg.json]]
                           /\ IF r.err # NoErr
                              THEN /\ Fail(t, r.err)
                                   /\ UNCHANGED video_info
                              ELSE /\ video_info' = [video_info EXCEPT ![t] = r.info]
                                   /\ pc' = [pc EXCEPT ![t] = "parsed"]
                                   /\ running' = t
                                   /\ UNCHANGED outcome
    /\ UNCHANGED <<op, share_link, share_response, fs, downloadLocals>>

\* parse_share_url returns: its locals go, and the three synchronous entry
\* points build their answer (lines 138-145, 169-174, 219).
ReturnInfo(t) ==
    /\ pc[t] = "parsed"
    /\ running \in {NoTask, t}
    /\ share_response' = [share_response EXCEPT ![t] = NoResponse]
    /\ page' = [page EXCEPT ![t] = NoPage]
    /\ IF op[t] = OpDownload
       THEN /\ pc' = [pc EXCEPT ![t] = "dl_info"]
            /\ running' = t
            /\ UNCHANGED outcome
       ELSE /\ pc' = [pc EXCEPT ![t] = "done"]
            /\ outcome' = [outcome EXCEPT ![t] = Success(op[t], video_info[t], <<>>)]
            /\ running' = NoTask
    /\ UNCHANGED <<op, share_link, requests, video_info, fs, downloadLocals>>

\* Lines 97-100: the path is built and "await ctx.info" gives up the loop.
AwaitInfo(t) ==
    /\ pc[t] = "dl_info"
    /\ running \in {NoTask, t}
    /\ pc' = [pc EXCEPT ![t] = "dl_get"]
    /\ running' = NoTask
    /\ UNCHANGED <<op, share_link, requests, video_info, outcome, fs, resolveLocals,
                   downloadLocals>>

\* Lines 102-106: the streaming GET, raise_for_status, content-length.
StreamGet(t) ==
    /\ pc[t] = "dl_get"
    /\ running \in {NoTask, t}
    /\ requests' = [requests EXCEPT ![t] = Append(@, "stream")]
    /\ \/ /\ Fail(t, ErrTransport)
          /\ UNCHANGED <<body, total_size>>
       \/ \E st \in Statuses :
              IF RaisesForStatus(st)
              THEN /\ Fail(t, ErrStatus)
                   /\ UNCHANGED <<body, total_size>>
              ELSE /\ \E b \in Bodies(t) : \E cl \in ContentLengths(Len(Flatten(b))) :
                          /\ body' = [body EXCEPT ![t] = b]
                          /\ total_size' = [total_size EXCEPT ![t] = cl]
                   /\ pc' = [pc EXCEPT ![t] = "dl_open"]
                   /\ running' = t
                   /\ UNCHANGED outcome
    /\ UNCHANGED <<op, share_link, video_info, fs, resolveLocals, fh, consumed,
                   downloaded, progress, alone>>

\* Lines 109-110: open(filepath, 'wb') and downloaded = 0.
OpenFile(t) ==
    /\ pc[t] = "dl_open"
    /\ running \in {NoTask, t}
    /\ \/ /\ Fail(t, ErrOS)
          /\ UNCHANGED <<fs, fh, alone>>
       \/ /\ fs' = OpenWb(fs, Path(t))
          /\ fh' = [fh EXCEPT ![t] = [state |-> "open", pos |-> 0]]
          /\ alone' = [alone EXCEPT ![t] =
                          \A u \in Tasks \ {t} : pc[u] \in {"done", "dl_return"}]
          /\ pc' = [pc EXCEPT ![t] = "dl_iter"]
          /\ running' = t
          /\ UNCHANGED outcome
    /\ UNCHANGED <<op, share_link, requests, video_info, resolveLocals, body,
                   total_size, consumed, downloaded, progress>>

\* Lines 111-117: one turn of the for loop.  An empty chunk is skipped; a
\* reported chunk ends in "await ctx.report_progress", which gives up the loop.
IterChunk(t) ==
    /\ pc[t] = "dl_iter"
    /\ running \in {NoTask, t}
    /\ consumed[t] < Len(body[t])
    /\ LET chunk == body[t][consumed[t] + 1]
           count == Advance(downloaded[t], chunk)
       IN  /\ consumed' = [consumed EXCEPT ![t] = @ + 1]
           /\ IF chunk # <<>>
              THEN /\ fs' = [fs EXCEPT ![Path(t)] = WriteAt(@, fh[t].pos, chunk)]
                   /\ fh' = [fh EXCEPT ![t].pos = @ + Len(chunk)]
                   /\ downloaded' = [downloaded EXCEPT ![t] = count]
                   /\ IF ShouldReport(total_size[t])
                      THEN /\ progress' = [progress EXCEPT ![t] =
                                              Append(@, <<count, total_size[t]>>)]
                           /\ running' = NoTask
                      ELSE /\ running' = t
                           /\ UNCHANGED progress
              ELSE /\ running' = t
                   /\ UNCHANGED <<fs, fh, downloaded, progress>>
    /\ UNCHANGED <<op, share_link, pc, requests, video_info, outcome, resolveLocals,
                   body, total_size, alone>>

\* iter_content raises in the middle of the stream: the with block closes the
\* file and the exception leaves download_video.
StreamError(t) ==
    /\ pc[t] = "dl_iter"
    /\ running \in {NoTask, t}
    /\ fh' = [fh EXCEPT ![t].state = "closed"]
    /\ Fail(t, ErrTransport)
    /\ UNCHANGED <<op, share_link, requests, video_info, fs, resolveLocals, body,
                   total_size, consumed, downloaded, progress, alone>>

\* f.write raises: the chunk is not written, the with block closes the file.
WriteError(t) ==
    /\ pc[t] = "dl_iter"
    /\ running \in {NoTask, t}
    /\ consumed[t] < Len(body[t])
    /\ body[t][consumed[t] + 1] # <<>>
    /\ fh' = [fh EXCEPT ![t].state = "closed"]
    /\ Fail(t, ErrOS)
    /\ UNCHANGED <<op, share_link, requests, video_info, fs, resolveLocals, body,
                   total_size, consumed, downloaded, progress, alone>>

\* The stream is exhausted: the with block closes the file, and
\* "await ctx.info" of line 119 gives up the loop.
StreamEnd(t) ==
    /\ pc[t] = "dl_iter"
    /\ running \in {NoTask, t}
    /\ consumed[t] = Len(body[t])
    /\ fh' = [fh EXCEPT ![t].state = "closed"]
    /\ pc' = [pc EXCEPT ![t] = "dl_return"]
    /\ running' = NoTask
    /\ UNCHANGED <<op, share_link, requests, video_info, outcome, fs, resolveLocals,
                   body, total_size, consumed, downloaded, progress, alone>>

\* Lines 120 and 198-201: the path goes back in a success envelope.
ReturnPath(t) ==
    /\ pc[t] = "dl_return"
    /\ running \in {NoTask, t}
    /\ pc' = [pc EXCEPT ![t] = "done"]
    /\ outcome' = [outcome EXCEPT ![t] = Success(op[t], video_info[t], Path(t))]
    /\ running' = NoTask
    /\ UNCHANGED <<op, share_link, requests, video_info, fs, resolveLocals,
                   downloadLocals>>

Resolve(t) == FindUrl(t) \/ GetShare(t) \/ GetDetail(t) \/ ReturnInfo(t) \/ AwaitInfo(t)

Download(t) ==
    \/ StreamGet(t) \/ OpenFile(t) \/ IterChunk(t) \/ StreamError(t)
    \/ WriteError(t) \/ StreamEnd(t) \/ ReturnPath(t)

Next == \E t \in Tasks : Resolve(t) \/ Download(t)

NextPair == \E t \in Tasks : Download(t)

Spec == Init /\ [][Next]_vars

SpecPair == InitPair /\ [][NextPair]_vars

\* ------------------------------------------------------------------ claims
Active == {t \in Tasks : op[t] # OpNone}

\* The invocation ended in an exception raised inside the entry point.
Failed(t) == pc[t] = "done" /\ outcome[t].error # <<>>

\* The exception that ended it.
ErrorOf(t) == outcome[t].error[Len(outcome[t].error)]

Succeeded(t) == pc[t] = "done" /\ outcome[t].error = <<>>

\* The destination path, spelled out from the title.
Dest(t) == <<"..", "/", "t", "m", "p", "/">> \o video_info[t].title \o <<".mp4">>

IsPrefix(s, r) == Len(s) <= Len(r) /\ s = SubSeq(r, 1, Len(s))

\* C1: whatever failure ends a resolution, get_douyin_download_link and
\* parse_douyin_video_info never raise: they hand back an envelope with
\* status "error" and a message; download_douyin_video hands back no
\* envelope for the same failures: the exception leaves it.
C1_ErrorBoundary ==
    \A t \in Active :
        /\ op[t] \in {OpLink, OpInfo} => outcome[t].kind # "raised"
        /\ (pc[t] = "done" /\ video_info[t] = NoInfo) =>
               /\ op[t] \in {OpLink, OpInfo} =>
                      /\ outcome[t].kind = "envelope"
                      /\ outcome[t].status = "error"
                      /\ outcome[t].error # <<>>
                      /\ ErrorOf(t) \in ResolutionErrors
               /\ op[t] = OpDownload =>
                      /\ outcome[t].kind = "raised"
                      /\ outcome[t].status = ""
                      /\ ErrorOf(t) \in ResolutionErrors

C1_Witness ==
    /\ op[1] = OpLink
    /\ pc[1] = "done"
    /\ outcome[1].kind = "envelope"
    /\ outcome[1].status = "error"
    /\ ErrorOf(1) = ErrIndex

\* A text holds a URL when a scheme is directly followed by a character of
\* the pattern's class.
ContainsUrl(text) ==
    \E i \in 1..(Len(text) - 1) : text[i] \in Schemes /\ text[i + 1] \in UrlClass

\* C2: a share text with no URL in it fails with the "no valid link" error
\* before any GET: the invocation issues no request at all.
C2_NoUrlNoRequest ==
    \A t \in Active :
        ~ContainsUrl(share_link[t]) =>
            /\ requests[t] = <<>>
            /\ pc[t] \in {"start", "done"}
            /\ pc[t] = "done" => (Failed(t) /\ ErrorOf(t) = ErrNoLink)

C2_Witness ==
    /\ share_link[1] = <<"a", "https://">>
    /\ Failed(1)
    /\ ErrorOf(1) = ErrNoLink
    /\ requests[1] = <<>>

\* The chunks written so far: the non-empty ones among those taken.
Written(t) == {i \in 1..consumed[t] : body[t][i] # <<>>}

\* C3 as claimed: the progress sink is called after every chunk written,
\* also when the total is unknown (then with a total of 0).
C3_ReportedAfterEveryChunk ==
    \A t \in Active :
        /\ Len(progress[t]) = Cardinality(Written(t))
        /\ \A i \in 1..Len(progress[t]) : progress[t][i][2] = total_size[t]

\* C3 as amended: the progress sink is called after every chunk written
\* when the total is known (total_size > 0), each time with that total; when
\* the total is unknown (content-length absent or 0) it is never called.
C3_ReportedOnlyWithTotal ==
    \A t \in Active :
        IF total_size[t] > 0
        THEN /\ Len(progress[t]) = Cardinality(Written(t))
             /\ \A i \in 1..Len(progress[t]) : progress[t][i][2] = total_size[t]
        ELSE progress[t] = <<>>

C3_Witness ==
    /\ Succeeded(1)
    /\ op[1] = OpDownload
    /\ total_size[1] = 0
    /\ Cardinality(Written(1)) = 2
    /\ progress[1] = <<>>

BodyLen(t) == Len(Flatten(body[t]))

\* C4: a download whose content-length is the body's length (> 0): every
\* progress call carries the number of bytes written so far, the numbers
\* never go down, and once the stream is exhausted the file holds exactly
\* the body, total_size bytes in chunk order, and the last call carried
\* downloaded = total.
C4_KnownLength ==
    \A t \in Active :
        (op[t] = OpDownload /\ total_size[t] > 0 /\ total_size[t] = BodyLen(t)) =>
            /\ \A i \in 1..Len(progress[t]) :
                   /\ i > 1 => progress[t][i - 1][1] <= progress[t][i][1]
                   /\ \E n \in 1..consumed[t] :
                          progress[t][i][1] = Len(Flatten(SubSeq(body[t], 1, n)))
            /\ (progress[t] # <<>> /\ fh[t].state # "none") =>
                   /\ progress[t][Len(progress[t])][1] = Len(fs[Dest(t)])
                   /\ progress[t][Len(progress[t])][1] = downloaded[t]
            /\ (pc[t] = "dl_return" \/ (Succeeded(t) /\ fh[t].state = "closed")) =>
                   /\ fs[Dest(t)] = Flatten(body[t])
                   /\ Len(fs[Dest(t)]) = total_size[t]
                   /\ progress[t] # <<>>
                   /\ progress[t][Len(progress[t])] = <<total_size[t], total_size[t]>>

C4_Witness ==
    /\ Succeeded(1)
    /\ op[1] = OpDownload
    /\ total_size[1] = 4
    /\ progress[1] = <<<<2, 4>>, <<4, 4>>>>
    /\ Len(fs[Dest(1)]) = 4

\* C5: the title of every resolved VideoInfo, taken from the description or
\* defaulted to douyin_{video_id}, holds none of \ / : * ? " < > |, and the
\* name of every file a download made is built from such a title.
C5_TitleSanitized ==
    /\ \A t \in Active :
           video_info[t] # NoInfo => Range(video_info[t].title) \cap Illegal = {}
    /\ \A p \in DOMAIN fs \ DOMAIN Fs0 :
           /\ Len(p) > Len(cache_dir) + 2
           /\ \A i \in (Len(cache_dir) + 2)..(Len(p) - 1) : p[i] \notin Illegal

C5_Witness ==
    /\ pc[1] = "dl_iter"
    /\ video_info[1].video_id = <<":">>
    /\ video_info[1].title = <<"douyin_", "_">>
    /\ Dest(1) \in DOMAIN fs

\* The payload exposes neither page key: it is an object with no loaderData
\* member, or with one that holds neither key.
ExposesNeither(j) ==
    j.kind = "object" /\ (j.ld # "object" \/ j.keys \cap PageKeys = {})

\* C6: the video key is used when present (the note key is then not tried),
\* the note key otherwise, and every payload exposing neither key, one with
\* no usable loaderData level included, fails with the 'unrecognized shape'
\* error.
C6_ShapeDispatch ==
    \A t \in Active :
        (page[t].marker = "found" /\ pc[t] \in {"parsed", "done"}) =>
            LET j == page[t].json
            IN  /\ (pc[t] = "parsed" /\ video_id_page_key \in j.keys) =>
                       video_info[t].url[1] = "v"
                /\ (pc[t] = "parsed" /\ video_id_page_key \notin j.keys) =>
                       video_info[t].url[1] = "n"
                /\ ExposesNeither(j) => (Failed(t) /\ ErrorOf(t) = ErrUnrecognized)

Finished(t) == Succeeded(t) /\ fh[t].state = "closed"

\* C7 as claimed: once two downloads to the same path have both run to
\* completion, the file holds the complete body of one of them.
C7_LastWriterWins ==
    (\A t \in Tasks : op[t] = OpDownload /\ Finished(t)) =>
        \E t \in Tasks : fs[Dest(t)] = Flatten(body[t])

\* C7 as amended: two downloads to the same path race with no detection, and
\* once both have run to completion every byte of the file is the byte one of
\* the two bodies has at that offset, or a zero byte of a gap: the file can
\* be a mixture.  It is the complete body of an invocation when that one
\* opened the file after the other had finished with it.
C7_ByteWiseLastWriter ==
    (\A t \in Tasks : op[t] = OpDownload /\ Finished(t)) =>
        /\ \A i \in 1..Len(fs[Dest(1)]) :
               \/ fs[Dest(1)][i] = 0
               \/ \E t \in Tasks :
                      i <= BodyLen(t) /\ fs[Dest(1)][i] = Flatten(body[t])[i]
        /\ \A t \in Tasks : alone[t] => fs[Dest(t)] = Flatten(body[t])

C7_Witness ==
    /\ \A t \in Tasks : op[t] = OpDownload /\ Finished(t)
    /\ Dest(1) = Dest(2)
    /\ fs[Dest(1)] = <<201, 202, 103>>

NonSuccess == {s \in Statuses : s \notin 200..299}

RequestOrder == <<"share", "detail", "stream">>

\* C8 as claimed: each request is issued at most once and in order, a
\* non-success response to any request ends the operation with no later
\* step, and a download whose resolution failed issues no streaming GET and
\* leaves the disk as it was.
C8_AnyFailureAborts ==
    \A t \in Active :
        /\ IsPrefix(requests[t], RequestOrder)
        /\ share_response[t].status \in NonSuccess =>
               (Len(requests[t]) = 1 /\ pc[t] = "done")
        /\ page[t].status \in NonSuccess =>
               (Failed(t) /\ video_info[t] = NoInfo /\ Len(requests[t]) = 2)
        /\ (op[t] = OpDownload /\ pc[t] = "done" /\ video_info[t] = NoInfo) =>
               (Len(requests[t]) <= 2 /\ fh[t].state = "none" /\ fs = Fs0)

\* C8 as amended: each request is issued at most once and in order; an
\* exception at any step, and a non-success response to the detail-page GET,
\* ends the operation with no later step; the status of the share-link
\* response is not looked at, so a non-success response there does not stop
\* the detail-page GET; a download whose resolution failed issues no
\* streaming GET and leaves the disk as it was.
C8_FailureAborts ==
    \A t \in Active :
        /\ IsPrefix(requests[t], RequestOrder)
        /\ Failed(t) =>
               /\ ErrorOf(t) = ErrNoLink => requests[t] = <<>>
               /\ ErrorOf(t) \in (ResolutionErrors \ {ErrNoLink, ErrTransport, ErrStatus})
                      => requests[t] = <<"share", "detail">>
        /\ page[t].status \in NonSuccess =>
               (Failed(t) /\ video_info[t] = NoInfo /\ Len(requests[t]) = 2)
        /\ (op[t] = OpDownload /\ pc[t] = "done" /\ video_info[t] = NoInfo) =>
               (Len(requests[t]) <= 2 /\ fh[t].state = "none" /\ fs = Fs0)

C8_Witness ==
    /\ pc[1] = "parsed"
    /\ share_response[1].status = 404
    /\ requests[1] = <<"share", "detail">>
    /\ video_info[1] # NoInfo

\* C9: the disk differs from what it was before the invocation at no path but
\* the destination of a download, {cache_dir}/{title}.mp4, a name directly
\* under the cache directory: the two other tools and the resource lookup
\* change nothing, and a download makes or overwrites that one file only.
C9_FilesystemFrame ==
    /\ DOMAIN Fs0 \subseteq DOMAIN fs
    /\ \A p \in DOMAIN fs :
           (p \notin DOMAIN Fs0 \/ fs[p] # Fs0[p]) =>
               /\ \E t \in Active :
                      op[t] = OpDownload /\ fh[t].state # "none" /\ p = Dest(t)
               /\ SubSeq(p, 1, 6) = <<"..", "/", "t", "m", "p", "/">>
               /\ \A i \in 7..Len(p) : p[i] # "/"
    /\ Cardinality(DOMAIN fs) <= Cardinality(DOMAIN Fs0) + 1

C9_Witness ==
    /\ Succeeded(1)
    /\ op[1] = OpDownload
    /\ video_info[1].title = <<"a">>
    /\ Fs0[Dest(1)] = OldBytes
    /\ fs[Dest(1)] = <<101, 102>>
    /\ \A p \in DOMAIN Fs0 \ {Dest(1)} : fs[p] = Fs0[p]

\* C10: a download that fails after the file was opened leaves the file on
\* disk holding exactly the chunks written before the failure, a prefix of
\* the body in chunk order, and the error goes to the caller; a download
\* that fails before the file is opened (the streaming GET fails or answers
\* with a non-success status) leaves the disk, a file already at that path
\* included, as it was.
C10_PartialFileLeft ==
    \A t \in Active :
        (op[t] = OpDownload /\ Failed(t)) =>
            /\ outcome[t].kind = "raised"
            /\ fh[t].state # "open"
            /\ fh[t].state = "closed" =>
                   /\ Dest(t) \in DOMAIN fs
                   /\ fs[Dest(t)] = Flatten(SubSeq(body[t], 1, consumed[t]))
                   /\ IsPrefix(fs[Dest(t)], Flatten(body[t]))
            /\ fh[t].state = "none" => fs = Fs0

C10_Witness ==
    /\ op[1] = OpDownload
    /\ Failed(1)
    /\ ErrorOf(1) = ErrTransport
    /\ fh[1].state = "closed"
    /\ video_info[1].title = <<"a">>
    /\ Fs0[Dest(1)] = OldBytes
    /\ BodyLen(1) = 3
    /\ fs[Dest(1)] = <<101>>

====
